---- MODULE Spec2Model ----
(***************************************************************************)
(* A model of server.py: LabServerTCPHandler serving files below www.      *)
(*                                                                         *)
(* Paths on disk are sequences of segment names, <<>> being "/".  A        *)
(* request path is the sequence of its tokens, a token being either the    *)
(* separator "/" or one segment name, so "/deep/" is <<"/","deep","/">>.   *)
(* The file system maps every path of a small universe to what is stored   *)
(* there: nothing, a directory, a regular file with its bytes, or a        *)
(* symbolic link with its (absolute) target.                               *)
(***************************************************************************)
EXTENDS Integers, Sequences, FiniteSets, TLC

VARIABLES fs, pc, serve_path, start_line, method, path, secure,
          file_path, content_type, wfile, accesses, rfile

vars == <<fs, pc, serve_path, start_line, method, path, secure,
          file_path, content_type, wfile, accesses, rfile>>

conn == <<serve_path, start_line, method, path, secure,
          file_path, content_type, wfile, accesses, rfile>>

(***************************************************************************)
(* Bounds                                                                  *)
(***************************************************************************)
\* the longest request path has this many segments
MaxSegs == 2

(***************************************************************************)
(* Program constants                                                       *)
(***************************************************************************)
HTTP_1_1 == "HTTP/1.1"

\* the working directory of the process; 'www' is looked up in it
Cwd == <<"srv">>

(***************************************************************************)
(* The file system                                                         *)
(***************************************************************************)
NoEntry == [kind |-> "none", content |-> <<>>, target |-> <<>>]
Dir == [kind |-> "dir", content |-> <<>>, target |-> <<>>]
File(c) == [kind |-> "file", content |-> c, target |-> <<>>]
Link(t) == [kind |-> "link", content |-> <<>>, target |-> t]

\* the bytes of the files of the test scenario
IndexHtml == <<60, 104, 62>>
BaseCss == <<98, 123, 99, 111, 108, 111, 114, 58, 114, 101, 100, 125>>
DeepIndex == <<60, 100, 62, 10>>
DeepFile == <<100, 10>>
OutsideHtml == <<111, 117, 116>>

Www == Cwd \o <<"www">>
Wwwx == Cwd \o <<"wwwx">>

FsPaths ==
    { <<>>, Cwd, Www, Wwwx,
      Www \o <<"index.html">>, Www \o <<"base.css">>, Www \o <<"deep">>,
      Www \o <<"deep", "index.html">>, Wwwx \o <<"index.html">> }

\* what may be stored at each path of the universe
Options(p) ==
    CASE p = Www \o <<"index.html">> ->
            {NoEntry, File(IndexHtml), Dir, Link(Wwwx \o <<"index.html">>)}
      [] p = Www \o <<"base.css">> -> {NoEntry, File(BaseCss)}
      [] p = Www \o <<"deep">> -> {NoEntry, Dir, Link(Wwwx), File(DeepFile)}
      [] p = Www \o <<"deep", "index.html">> -> {NoEntry, File(DeepIndex)}
      [] p = Wwwx \o <<"index.html">> -> {NoEntry, File(OutsideHtml)}
      [] p = Www -> {Dir, Link(Wwwx)}
      [] OTHER -> {Dir}

\* the tree of the test scenario: www/index.html, www/base.css,
\* www/deep/index.html, and a sibling directory wwwx next to www
InitialFs ==
    [p \in FsPaths |->
        CASE p = Www \o <<"index.html">> -> File(IndexHtml)
          [] p = Www \o <<"base.css">> -> File(BaseCss)
          [] p = Www \o <<"deep", "index.html">> -> File(DeepIndex)
          [] p = Wwwx \o <<"index.html">> -> File(OutsideHtml)
          [] OTHER -> Dir]

\* lstat: what is stored at p itself, reached through real directories only
Lstat(f, p) ==
    IF p \notin DOMAIN f THEN NoEntry
    ELSE IF \A i \in 0..(Len(p) - 1) : f[SubSeq(p, 1, i)].kind = "dir"
         THEN f[p]
         ELSE NoEntry

\* os.path.realpath, non-strict: walk the segments, '..' drops the last
\* resolved segment, a link is replaced by its resolved target, a missing
\* segment is kept as it is written
RECURSIVE JoinRealPath(_, _, _)
JoinRealPath(f, resolved, rest) ==
    IF rest = <<>> THEN resolved
    ELSE LET name == Head(rest)
             newpath == Append(resolved, name)
         IN  IF name = ".."
             THEN JoinRealPath(f,
                      IF resolved = <<>> THEN <<>>
                      ELSE SubSeq(resolved, 1, Len(resolved) - 1),
                      Tail(rest))
             ELSE IF Lstat(f, newpath).kind = "link"
             THEN JoinRealPath(f, <<>>, Lstat(f, newpath).target \o Tail(rest))
             ELSE JoinRealPath(f, newpath, Tail(rest))

Resolve(f, p) == JoinRealPath(f, <<>>, p)

\* pathlib.Path('www').resolve() when the module is loaded
SERVE_PATH == Resolve(InitialFs, Cwd \o <<"www">>)

\* stat: what p is after following links
Stat(f, p) == Lstat(f, Resolve(f, p))

is_dir(f, p) == Stat(f, p).kind = "dir"
is_file_not_dir(f, p) == Stat(f, p).kind # "dir"
is_file(f, p) == Stat(f, p).kind = "file"
exists(f, p) == Stat(f, p).kind # "none"

\* open(p, 'rb') succeeds on a regular file only: a missing path and a
\* directory raise
CanOpen(f, p) == Stat(f, p).kind = "file"

(***************************************************************************)
(* Request paths                                                           *)
(***************************************************************************)
SegNames == {"..", "deep", "index.html", "base.css", "wwwx"}

SegSeqs == UNION { [1..n -> SegNames] : n \in 0..MaxSegs }

RECURSIVE JoinSegs(_)
JoinSegs(s) ==
    IF s = <<>> THEN <<>>
    ELSE IF Len(s) = 1 THEN s
    ELSE <<Head(s), "/">> \o JoinSegs(Tail(s))

RequestPaths ==
    { (IF lead THEN <<"/">> ELSE <<>>) \o JoinSegs(s)
         \o (IF trail THEN <<"/">> ELSE <<>>) :
      lead \in BOOLEAN, s \in SegSeqs, trail \in BOOLEAN } \ {<<>>}

Methods == {"GET", "POST", "get"}

StartLines ==
    {<<>>} \cup { <<m>> : m \in Methods }
      \cup { <<m, p, HTTP_1_1>> : m \in Methods, p \in RequestPaths }

\* what the client sends on the connection after its start line: here a
\* second request, pipelined
Pipelined == << <<"GET", <<"/">>, HTTP_1_1>> >>

\* rfile.readline(), split: the first line of the stream and what is left
recieve_line(stream) == [line |-> Head(stream), rest |-> Tail(stream)]

\* path.endswith('/')
EndsWithSlash(p) == p # <<>> /\ p[Len(p)] = "/"

\* path.strip('/')
RECURSIVE LStrip(_)
LStrip(p) == IF p # <<>> /\ Head(p) = "/" THEN LStrip(Tail(p)) ELSE p

RECURSIVE RStrip(_)
RStrip(p) ==
    IF p # <<>> /\ p[Len(p)] = "/" THEN RStrip(SubSeq(p, 1, Len(p) - 1)) ELSE p

Strip(p) == RStrip(LStrip(p))

\* the segments of a path string: empty and '.' segments are dropped
IsSegment(t) == t # "/" /\ t # "."

Parts(p) == SelectSeq(p, IsSegment)

\* root / p: an absolute right operand replaces the left one
JoinPath(root, p) ==
    IF p # <<>> /\ Head(p) = "/" THEN Parts(p) ELSE root \o Parts(p)

\* PurePath.parents
Parents(p) == { SubSeq(p, 1, i) : i \in 0..(Len(p) - 1) }

(***************************************************************************)
(* secure_path                                                             *)
(***************************************************************************)
Rejected == [ok |-> FALSE, path |-> <<>>]
Accepted(p) == [ok |-> TRUE, path |-> p]

resolved_path(f, root, p) == Resolve(f, JoinPath(root, Strip(p)))

\* the containment test made on the strings of the two paths
NamePrefix(a, b) == a = b \/ (a = "www" /\ b = "wwwx")

secure_path_by_string(f, root, p) ==
    LET r == resolved_path(f, root, p)
        n == Len(root)
    IN  IF /\ Len(r) >= n
           /\ \A i \in 1..(n - 1) : r[i] = root[i]
           /\ n > 0 => NamePrefix(root[n], r[n])
        THEN Accepted(r) ELSE Rejected

\* the containment test made before the path is resolved
secure_path_unresolved(f, root, p) ==
    LET j == JoinPath(root, Strip(p))
    IN  IF root \in Parents(j) \/ j = root
        THEN Accepted(Resolve(f, j)) ELSE Rejected

secure_path(f, root, p) ==
    LET r == resolved_path(f, root, p)
    IN  IF root \in Parents(r) \/ r = root THEN Accepted(r) ELSE Rejected

(***************************************************************************)
(* Writing the response                                                    *)
(***************************************************************************)
\* str(n): the decimal digits of n
Str_last_digit(n) == <<n % 10>>

RECURSIVE Str(_)
Str(n) == IF n < 10 THEN <<n>> ELSE Append(Str(n \div 10), n % 10)

StatusLine(status) ==
    [kind |-> "status", name |-> HTTP_1_1, text |-> status,
     path |-> <<>>, digits |-> <<>>, bytes |-> <<>>]
TextHeader(n, v) ==
    [kind |-> "header", name |-> n, text |-> v,
     path |-> <<>>, digits |-> <<>>, bytes |-> <<>>]
PathHeader(n, p) ==
    [kind |-> "header", name |-> n, text |-> "",
     path |-> p, digits |-> <<>>, bytes |-> <<>>]
NumHeader(n, d) ==
    [kind |-> "header", name |-> n, text |-> "",
     path |-> <<>>, digits |-> d, bytes |-> <<>>]
BlankLine ==
    [kind |-> "blank", name |-> "", text |-> "",
     path |-> <<>>, digits |-> <<>>, bytes |-> <<>>]
Body(b) ==
    [kind |-> "body", name |-> "", text |-> "",
     path |-> <<>>, digits |-> <<>>, bytes |-> b]

send_line(w, line) == Append(w, line)

send_redirect_keep_alive(w, new_path, status_code) ==
    LET w1 == send_line(w, StatusLine(status_code))
        w2 == send_line(w1, PathHeader("Location", new_path))
    IN  send_line(w2, BlankLine)

send_redirect(w, new_path, status_code) ==
    LET w1 == send_line(w, StatusLine(status_code))
        w2 == send_line(w1, PathHeader("Location", new_path))
        w3 == send_line(w2, TextHeader("Connection", "close"))
    IN  send_line(w3, BlankLine)

send_headers_untyped(w, status_code, ctype, content_length) ==
    LET w1 == send_line(w, StatusLine(status_code))
        w3 == send_line(w1, NumHeader("Content-Length", Str(content_length)))
        w4 == send_line(w3, TextHeader("Connection", "close"))
    IN  send_line(w4, BlankLine)

\* content_length is formatted into the line: 0 and str(len(content)) alike
send_headers(w, status_code, ctype, content_length) ==
    LET w1 == send_line(w, StatusLine(status_code))
        w2 == send_line(w1, TextHeader("Content-Type", ctype))
        w3 == send_line(w2, NumHeader("Content-Length", Str(content_length)))
        w4 == send_line(w3, TextHeader("Connection", "close"))
    IN  send_line(w4, BlankLine)

headers_before_open(w, ctype) == send_headers(w, "200 OK", ctype, 0)

\* what send_file_content has written when it calls open(): nothing, the
\* headers follow the read
written_before_open(w, ctype) == w

send_file_content_body_first(w, content, ctype) ==
    send_headers(Append(w, Body(content)), "200 OK", ctype, Len(content))

\* the response of send_file_content once the file has been read
send_file_content(w, content, ctype) ==
    Append(send_headers(w, "200 OK", ctype, Len(content)), Body(content))

\* str(secure_path).endswith(suffix), by the last segment's name
HasSuffix(p, suffix) ==
    /\ p # <<>>
    /\ \/ suffix = ".html" /\ p[Len(p)] \in {"index.html"}
       \/ suffix = ".css" /\ p[Len(p)] \in {"base.css"}

ContentTypeOf_default_html(p) ==
    IF HasSuffix(p, ".css") THEN "text/css" ELSE "text/html"

ContentTypeOf(p) ==
    IF HasSuffix(p, ".html") THEN "text/html"
    ELSE IF HasSuffix(p, ".css") THEN "text/css"
    ELSE ""

Access(op, p) == [op |-> op, path |-> p]

IsGet_any_case(m) == m \in {"GET", "get"}

\* method != 'GET', negated
IsGet(m) == m = "GET"

RedirectLocation_rooted(p) == <<"/">> \o Strip(p) \o <<"/">>

\* path + '/'
RedirectLocation(p) == Append(p, "/")

(***************************************************************************)
(* handle, run to its end on a tree that does not change meanwhile: how it *)
(* ends and what it has written                                            *)
(***************************************************************************)
Raised == [pc |-> "error", wfile |-> <<>>]
Returned(w) == [pc |-> "done", wfile |-> w]

serve_file(f, p, ctype) ==
    IF CanOpen(f, p)
    THEN Returned(send_file_content(<<>>, Stat(f, p).content, ctype))
    ELSE Raised

handle(f, line) ==
    LET root == Resolve(f, Cwd \o <<"www">>)
        not_found == Returned(send_headers(<<>>, "404 Not Found",
                                           "text/html", 0))
    IN  IF Len(line) < 2 THEN Raised
        ELSE IF ~IsGet(line[1])
        THEN Returned(send_headers(<<>>, "405 Method Not Allowed",
                                   "text/html", 0))
        ELSE LET s == secure_path(f, root, line[2])
             IN  IF ~s.ok THEN not_found
                 ELSE IF is_dir(f, s.path) /\ ~EndsWithSlash(line[2])
                 THEN Returned(send_redirect(<<>>, RedirectLocation(line[2]),
                                             "301 Moved Permanently"))
                 ELSE IF is_dir(f, s.path)
                 THEN IF exists(f, Append(s.path, "index.html"))
                      THEN serve_file(f, Append(s.path, "index.html"),
                                      "text/html")
                      ELSE not_found
                 ELSE IF is_file(f, s.path)
                 THEN serve_file(f, s.path, ContentTypeOf(s.path))
                 ELSE not_found

(***************************************************************************)
(* The server                                                              *)
(***************************************************************************)
Init ==
    /\ fs = InitialFs
    /\ pc = "listen"
    /\ serve_path = <<>>
    /\ start_line = <<>>
    /\ method = ""
    /\ path = <<>>
    /\ secure = Rejected
    /\ file_path = <<>>
    /\ content_type = ""
    /\ wfile = <<>>
    /\ accesses = <<>>
    /\ rfile = <<>>

\* the tree changes between two connections
FsChange ==
    /\ pc = "listen"
    /\ \E p \in FsPaths : \E e \in Options(p) :
          /\ e # fs[p]
          /\ fs' = [fs EXCEPT ![p] = e]
    /\ UNCHANGED <<pc, conn>>

\* a connection is accepted: __init__, then the start line is received
Accept ==
    /\ pc = "listen"
    /\ \E line \in StartLines :
          /\ start_line' = recieve_line(<<line>> \o Pipelined).line
          /\ rfile' = recieve_line(<<line>> \o Pipelined).rest
    /\ serve_path' = Resolve(fs, Cwd \o <<"www">>)
    /\ pc' = "split"
    /\ UNCHANGED <<fs, method, path, secure, file_path, content_type,
                   wfile, accesses>>

\* handle: the start line is split, the method is checked
MethodCheck ==
    /\ pc = "split"
    /\ IF Len(start_line) < 2
       THEN /\ pc' = "error"
            /\ UNCHANGED <<method, path, wfile>>
       ELSE /\ method' = start_line[1]
            /\ path' = start_line[2]
            /\ IF ~IsGet(start_line[1])
               THEN /\ wfile' = send_headers(wfile, "405 Method Not Allowed",
                                             "text/html", 0)
                    /\ pc' = "done"
               ELSE /\ pc' = "secure"
                    /\ UNCHANGED wfile
    /\ UNCHANGED <<fs, rfile, serve_path, start_line, secure, file_path,
                   content_type, accesses>>

\* handle: the path is resolved and checked
SecurePath ==
    /\ pc = "secure"
    /\ secure' = secure_path(fs, serve_path, path)
    /\ accesses' = Append(accesses,
                          Access("resolve", JoinPath(serve_path, Strip(path))))
    /\ IF ~secure'.ok
       THEN /\ wfile' = send_headers(wfile, "404 Not Found", "text/html", 0)
            /\ pc' = "done"
       ELSE /\ pc' = "redirect"
            /\ UNCHANGED wfile
    /\ UNCHANGED <<fs, rfile, serve_path, start_line, method, path, file_path,
                   content_type>>

\* handle: a directory asked for without the trailing '/'
RedirectCheck ==
    /\ pc = "redirect"
    /\ accesses' = Append(accesses, Access("is_dir", secure.path))
    /\ IF is_dir(fs, secure.path) /\ ~EndsWithSlash(path)
       THEN /\ wfile' = send_redirect(wfile, RedirectLocation(path),
                                      "301 Moved Permanently")
            /\ pc' = "done"
       ELSE /\ pc' = "classify"
            /\ UNCHANGED wfile
    /\ UNCHANGED <<fs, rfile, serve_path, start_line, method, path, secure,
                   file_path, content_type>>

\* handle: is the path a directory
Classify ==
    /\ pc = "classify"
    /\ accesses' = Append(accesses, Access("is_dir", secure.path))
    /\ IF is_dir(fs, secure.path)
       THEN /\ file_path' = Append(secure.path, "index.html")
            /\ pc' = "index"
       ELSE /\ pc' = "file"
            /\ UNCHANGED file_path
    /\ UNCHANGED <<fs, rfile, serve_path, start_line, method, path, secure,
                   content_type, wfile>>

\* handle: is the path a regular file
FileCheck ==
    /\ pc = "file"
    /\ accesses' = Append(accesses, Access("is_file", secure.path))
    /\ IF is_file(fs, secure.path)
       THEN /\ file_path' = secure.path
            /\ content_type' = ContentTypeOf(secure.path)
            /\ pc' = "open"
            /\ UNCHANGED wfile
       ELSE /\ wfile' = send_headers(wfile, "404 Not Found", "text/html", 0)
            /\ pc' = "done"
            /\ UNCHANGED <<file_path, content_type>>
    /\ UNCHANGED <<fs, rfile, serve_path, start_line, method, path, secure>>

\* handle: the directory's index.html
IndexCheck ==
    /\ pc = "index"
    /\ accesses' = Append(accesses, Access("exists", file_path))
    /\ IF exists(fs, file_path)
       THEN /\ content_type' = "text/html"
            /\ pc' = "open"
            /\ UNCHANGED wfile
       ELSE /\ wfile' = send_headers(wfile, "404 Not Found", "text/html", 0)
            /\ pc' = "done"
            /\ UNCHANGED content_type
    /\ UNCHANGED <<fs, rfile, serve_path, start_line, method, path, secure,
                   file_path>>

\* send_file_content: open, read, then headers and body
SendFileContent ==
    /\ pc = "open"
    /\ accesses' = Append(accesses, Access("open", file_path))
    /\ IF CanOpen(fs, file_path)
       THEN /\ wfile' = send_file_content(
                            written_before_open(wfile, content_type),
                            Stat(fs, file_path).content, content_type)
            /\ pc' = "done"
       ELSE /\ wfile' = written_before_open(wfile, content_type)
            /\ pc' = "error"
    /\ UNCHANGED <<fs, rfile, serve_path, start_line, method, path, secure,
                   file_path, content_type>>

\* the server stops at the first handler that raises
Finish_dies_on_error ==
    /\ pc \in {"done", "error"}
    /\ pc' = IF pc = "error" THEN "stopped" ELSE "listen"
    /\ serve_path' = <<>>
    /\ start_line' = <<>>
    /\ method' = ""
    /\ path' = <<>>
    /\ secure' = Rejected
    /\ file_path' = <<>>
    /\ content_type' = ""
    /\ wfile' = <<>>
    /\ accesses' = <<>>
    /\ rfile' = <<>>
    /\ UNCHANGED fs

\* the handler goes on with the next line of a connection it has answered
Finish_keep_alive ==
    /\ pc \in {"done", "error"}
    /\ IF pc = "done" /\ rfile # <<>>
       THEN /\ pc' = "split"
            /\ start_line' = recieve_line(rfile).line
            /\ rfile' = recieve_line(rfile).rest
            /\ UNCHANGED <<serve_path, method, path, secure, file_path,
                           content_type, wfile, accesses>>
       ELSE /\ pc' = "listen"
            /\ serve_path' = <<>>
            /\ start_line' = <<>>
            /\ method' = ""
            /\ path' = <<>>
            /\ secure' = Rejected
            /\ file_path' = <<>>
            /\ content_type' = ""
            /\ wfile' = <<>>
            /\ accesses' = <<>>
            /\ rfile' = <<>>
    /\ UNCHANGED fs

\* handle returns or raises: the connection is closed, what was not read
\* of it is dropped, and serve_forever accepts the next connection
Finish ==
    /\ pc \in {"done", "error"}
    /\ pc' = "listen"
    /\ serve_path' = <<>>
    /\ start_line' = <<>>
    /\ method' = ""
    /\ path' = <<>>
    /\ secure' = Rejected
    /\ file_path' = <<>>
    /\ content_type' = ""
    /\ wfile' = <<>>
    /\ accesses' = <<>>
    /\ rfile' = <<>>
    /\ UNCHANGED fs

Next ==
    \/ FsChange
    \/ Accept
    \/ MethodCheck
    \/ SecurePath
    \/ RedirectCheck
    \/ Classify
    \/ FileCheck
    \/ IndexCheck
    \/ SendFileContent
    \/ Finish

Spec == Init /\ [][Next]_vars

\* the tree changes while a request is being handled
FsRace ==
    /\ pc \in {"split", "secure", "redirect", "classify", "file", "index",
               "open"}
    /\ \E p \in FsPaths : \E e \in Options(p) :
          /\ e # fs[p]
          /\ fs' = [fs EXCEPT ![p] = e]
    /\ UNCHANGED <<pc, conn>>

NextRace ==
    \/ FsChange
    \/ FsRace
    \/ Accept
    \/ MethodCheck
    \/ SecurePath
    \/ RedirectCheck
    \/ Classify
    \/ FileCheck
    \/ IndexCheck
    \/ SendFileContent
    \/ Finish

SpecRace == Init /\ [][NextRace]_vars

(***************************************************************************)
(* Reading a response back                                                 *)
(***************************************************************************)
Finished == pc \in {"done", "error"}

Status == IF wfile = <<>> THEN "" ELSE wfile[1].text

HeaderLines(n) ==
    { i \in DOMAIN wfile : wfile[i].kind = "header" /\ wfile[i].name = n }

HasTextHeader(n, v) == \E i \in HeaderLines(n) : wfile[i].text = v

BodyLines == { i \in DOMAIN wfile : wfile[i].kind = "body" }

\* the number a string of decimal digits denotes
RECURSIVE DecimalValue(_)
DecimalValue(d) ==
    IF d = <<>> THEN 0
    ELSE 10 * DecimalValue(SubSeq(d, 1, Len(d) - 1)) + d[Len(d)]

\* root is p or an ancestor of p, segment by segment
IsWithin(root, p) ==
    /\ Len(p) >= Len(root)
    /\ \A i \in 1..Len(root) : p[i] = root[i]

\* the segments of the request path
Segments(p) == SelectSeq(p, LAMBDA t : t # "/")

\* where the request path leads from the document root, links followed
Target == Resolve(fs, serve_path \o Segments(path))

IsGetRequest == Len(start_line) >= 2 /\ start_line[1] = "GET"

(***************************************************************************)
(* C1: whenever a 200 response has been written, the file that was opened  *)
(* for it lies, after following links, at or below the document root.      *)
(***************************************************************************)
C1_ServedWithinRoot ==
    (pc = "done" /\ Status = "200 OK")
        => IsWithin(serve_path, Resolve(fs, file_path))

(***************************************************************************)
(* C2: once secure_path has run, it has accepted exactly when the resolved *)
(* join of the root and the request path is the root or below it, compared *)
(* segment by segment, and then it returns that resolved path; an ancestor *)
(* of the root and the sibling wwwx are rejected.                          *)
(***************************************************************************)
C2_SecurePathIffWithin ==
    (IsGetRequest /\ pc \notin {"listen", "split", "secure"})
        => /\ secure.ok <=> IsWithin(serve_path, Target)
           /\ secure.ok => secure.path = Target
           /\ (Target # serve_path /\ Target \in {Www, Wwwx, Cwd, <<>>})
                 => secure = Rejected

C2_SiblingRejected ==
    /\ pc = "done"
    /\ IsGetRequest
    /\ serve_path = Www
    /\ Target = Wwwx
    /\ secure = Rejected

(***************************************************************************)
(* C3: a GET whose path has a '..' segment and leads outside the document  *)
(* root is answered with 404, whatever is or is not stored there.          *)
(***************************************************************************)
C3_TraversalIs404 ==
    (Finished /\ IsGetRequest /\ (\E i \in DOMAIN path : path[i] = "..")
       /\ ~IsWithin(serve_path, Target))
        => Status = "404 Not Found"

C3_TraversalToExistingDir ==
    /\ pc = "done"
    /\ IsGetRequest
    /\ \E i \in DOMAIN path : path[i] = ".."
    /\ ~IsWithin(serve_path, Target)
    /\ Lstat(fs, Target).kind = "dir"
    /\ Status = "404 Not Found"

(***************************************************************************)
(* C4: a request whose method is not exactly GET gets the 405 response     *)
(* with Content-Type text/html and Content-Length 0, and nothing has been  *)
(* resolved or looked up in the file system for it.                        *)
(***************************************************************************)
C4_NonGetIs405 ==
    (Finished /\ Len(start_line) >= 2 /\ start_line[1] # "GET")
        => /\ wfile = <<StatusLine("405 Method Not Allowed"),
                        TextHeader("Content-Type", "text/html"),
                        NumHeader("Content-Length", <<0>>),
                        TextHeader("Connection", "close"),
                        BlankLine>>
           /\ accesses = <<>>
           /\ secure = Rejected
           /\ file_path = <<>>

C4_LowercaseGetOutsideRoot ==
    /\ pc = "done"
    /\ start_line[1] = "get"
    /\ ~IsWithin(serve_path, Resolve(fs, serve_path \o Segments(start_line[2])))
    /\ Status = "405 Method Not Allowed"

(***************************************************************************)
(* C5: a GET for a directory within the root, asked for without the        *)
(* trailing '/', gets 301 with Location being the request path as sent     *)
(* plus one '/', and no file is opened nor any body written.               *)
(***************************************************************************)
C5_DirectoryRedirect ==
    (Finished /\ IsGetRequest /\ IsWithin(serve_path, Target)
       /\ Lstat(fs, Target).kind = "dir" /\ path[Len(path)] # "/")
        => /\ Status = "301 Moved Permanently"
           /\ Cardinality(HeaderLines("Location")) = 1
           /\ \A i \in HeaderLines("Location") : wfile[i].path = path \o <<"/">>
           /\ BodyLines = {}
           /\ \A i \in DOMAIN accesses : accesses[i].op # "open"

C5_RedirectOfDotDotPath ==
    /\ pc = "done"
    /\ IsGetRequest
    /\ path = <<"/", "deep", "/", "..">>
    /\ Status = "301 Moved Permanently"
    /\ \E i \in HeaderLines("Location") :
          wfile[i].path = <<"/", "deep", "/", "..", "/">>

(***************************************************************************)
(* C6: a GET whose path ends with '/' and leads to a directory within the  *)
(* root gets 200, text/html and the bytes of that directory's index.html   *)
(* when index.html is there, and 404 when it is not.                       *)
(***************************************************************************)
C6_DirectoryIndex ==
    (Finished /\ IsGetRequest /\ IsWithin(serve_path, Target)
       /\ Lstat(fs, Target).kind = "dir" /\ path[Len(path)] = "/")
        => LET index == Stat(fs, Append(Target, "index.html"))
           IN  IF index.kind # "none"
               THEN /\ Status = "200 OK"
                    /\ HasTextHeader("Content-Type", "text/html")
                    /\ \E i \in BodyLines : wfile[i].bytes = index.content
               ELSE Status = "404 Not Found"

(***************************************************************************)
(* C7: in a 200 response Content-Length is the number of body bytes and    *)
(* the body is the content of the file served; an existing .css file under *)
(* the root is served so, with Content-Type text/css.                      *)
(***************************************************************************)
C7_ExactLengthAndBytes ==
    /\ (pc = "done" /\ Status = "200 OK")
          => /\ Cardinality(HeaderLines("Content-Length")) = 1
             /\ BodyLines = {Len(wfile)}
             /\ \A i \in HeaderLines("Content-Length") :
                   DecimalValue(wfile[i].digits) = Len(wfile[Len(wfile)].bytes)
             /\ wfile[Len(wfile)].bytes
                   = Lstat(fs, Resolve(fs, file_path)).content
    /\ (Finished /\ IsGetRequest /\ IsWithin(serve_path, Target)
          /\ Lstat(fs, Target).kind = "file"
          /\ Target[Len(Target)] = "base.css")
          => /\ Status = "200 OK"
             /\ HasTextHeader("Content-Type", "text/css")
             /\ wfile[Len(wfile)].bytes = Lstat(fs, Target).content

C7_CssOfTwelveBytes ==
    /\ pc = "done"
    /\ Status = "200 OK"
    /\ HasTextHeader("Content-Type", "text/css")
    /\ Len(wfile[Len(wfile)].bytes) = 12
    /\ \E i \in HeaderLines("Content-Length") : wfile[i].digits = <<1, 2>>

(***************************************************************************)
(* C8: a GET that leads to a place within the root where nothing is stored *)
(* gets 404 with Content-Length 0 and no body.                             *)
(***************************************************************************)
C8_MissingIs404 ==
    (Finished /\ IsGetRequest /\ IsWithin(serve_path, Target)
       /\ Lstat(fs, Target).kind = "none")
        => wfile = <<StatusLine("404 Not Found"),
                     TextHeader("Content-Type", "text/html"),
                     NumHeader("Content-Length", <<0>>),
                     TextHeader("Connection", "close"),
                     BlankLine>>

C8_MissingBelowRoot ==
    /\ pc = "done"
    /\ IsGetRequest
    /\ Target = Www \o <<"deep", "base.css">>
    /\ Lstat(fs, Www \o <<"deep">>).kind = "dir"
    /\ Status = "404 Not Found"

(***************************************************************************)
(* C9: every response written has the header Connection: close.            *)
(***************************************************************************)
C9_ConnectionClose ==
    /\ wfile # <<>> => HasTextHeader("Connection", "close")
    /\ pc = "done" => wfile # <<>>

C9_RedirectCloses ==
    /\ pc = "done"
    /\ Status = "301 Moved Permanently"
    /\ HasTextHeader("Connection", "close")

(***************************************************************************)
(* C10 as stated: every 301, 404 and 405 response has Content-Type         *)
(* text/html, and every 200 response has Content-Type and Content-Length.  *)
(***************************************************************************)
C10_ContentTypeOnAll ==
    pc = "done"
        => /\ Status \in {"301 Moved Permanently", "404 Not Found",
                          "405 Method Not Allowed"}
                 => HasTextHeader("Content-Type", "text/html")
           /\ Status = "200 OK"
                 => /\ HeaderLines("Content-Type") # {}
                    /\ HeaderLines("Content-Length") # {}

(***************************************************************************)
(* C10 as amended: every 404 and 405 response has Content-Type text/html,  *)
(* every 200 response has Content-Type and Content-Length, and a 301       *)
(* response has a Location header and no Content-Type header.              *)
(***************************************************************************)
C10_ContentTypeExceptRedirect ==
    pc = "done"
        => /\ Status \in {"404 Not Found", "405 Method Not Allowed"}
                 => HasTextHeader("Content-Type", "text/html")
           /\ Status = "200 OK"
                 => /\ HeaderLines("Content-Type") # {}
                    /\ HeaderLines("Content-Length") # {}
           /\ Status = "301 Moved Permanently"
                 => /\ HeaderLines("Content-Type") = {}
                    /\ HeaderLines("Location") # {}

C10_RedirectWithoutContentType ==
    /\ pc = "done"
    /\ Status = "301 Moved Permanently"
    /\ HeaderLines("Content-Type") = {}
    /\ HeaderLines("Location") # {}

(***************************************************************************)
(* C11: a GET that leads to a regular file within the root is served with  *)
(* the Content-Type of that file's suffix: text/html for .html, text/css   *)
(* for .css, and the empty string for anything else.                       *)
(***************************************************************************)
C11_ContentTypeBySuffix ==
    (Finished /\ IsGetRequest /\ IsWithin(serve_path, Target)
       /\ Lstat(fs, Target).kind = "file")
        => /\ Status = "200 OK"
           /\ Cardinality(HeaderLines("Content-Type")) = 1
           /\ \A i \in HeaderLines("Content-Type") :
                 wfile[i].text =
                    CASE Target[Len(Target)] = "index.html" -> "text/html"
                      [] Target[Len(Target)] = "base.css" -> "text/css"
                      [] OTHER -> ""

C11_FileWithoutSuffix ==
    /\ pc = "done"
    /\ IsGetRequest
    /\ Target = Www \o <<"deep">>
    /\ Lstat(fs, Target).kind = "file"
    /\ Status = "200 OK"
    /\ HasTextHeader("Content-Type", "")

(***************************************************************************)
(* C12: what has been written of a response is, in this order: the status  *)
(* line HTTP/1.1 <code> <reason>, header lines, one blank line and, in a   *)
(* 200 response only, the body after the blank line.                       *)
(***************************************************************************)
C12_ResponseOrder ==
    wfile # <<>>
        => /\ wfile[1].kind = "status"
           /\ wfile[1].name = HTTP_1_1
           /\ wfile[1].text \in {"200 OK", "301 Moved Permanently",
                                 "404 Not Found", "405 Method Not Allowed"}
           /\ \E b \in 2..Len(wfile) :
                 /\ wfile[b].kind = "blank"
                 /\ \A i \in 2..(b - 1) : wfile[i].kind = "header"
                 /\ \A i \in (b + 1)..Len(wfile) :
                       wfile[i].kind = "body" /\ Status = "200 OK"
                 /\ Len(wfile) = IF Status = "200 OK" THEN b + 1 ELSE b

C12_BodyAfterBlankLine ==
    /\ pc = "done"
    /\ Len(wfile) = 6
    /\ wfile[5].kind = "blank"
    /\ wfile[6].kind = "body"
    /\ wfile[6].bytes # <<>>

StatusLines == { i \in DOMAIN wfile : wfile[i].kind = "status" }

\* nothing of a connection is left once it is closed
NoConnection ==
    /\ serve_path = <<>>
    /\ start_line = <<>>
    /\ method = ""
    /\ path = <<>>
    /\ secure = Rejected
    /\ file_path = <<>>
    /\ content_type = ""
    /\ wfile = <<>>
    /\ accesses = <<>>
    /\ rfile = <<>>

(***************************************************************************)
(* C13: a handler that has failed, on a start line of fewer than two       *)
(* tokens or on opening a file, is followed by the server listening again  *)
(* on the same tree with nothing left of the failed connection, and every  *)
(* request answered, after a failure or not, has the response handle gives *)
(* for its start line and the tree.                                        *)
(***************************************************************************)
C13_FailureKeepsServing ==
    /\ [][pc = "error" => (pc' = "listen" /\ fs' = fs)]_vars
    /\ [](pc = "listen" => NoConnection)
    /\ [](pc \in {"listen", "split", "secure", "redirect", "classify",
                  "file", "index", "open", "done", "error"})
    /\ [](pc = "done" => wfile = handle(fs, start_line).wfile)

C13_ShortStartLineFailed ==
    /\ pc = "error"
    /\ Len(start_line) < 2
    /\ wfile = <<>>

(***************************************************************************)
(* C14: on one connection exactly one line is read, what the client sent   *)
(* after it stays unread, at most one status line is written, and once the *)
(* handler has finished the connection is closed with the rest unanswered. *)
(***************************************************************************)
C14_OneRequestPerConnection ==
    /\ [](Cardinality(StatusLines) <= 1)
    /\ [](pc # "listen" => rfile = Pipelined)
    /\ [][Finished => (pc' = "listen" /\ wfile' = <<>> /\ rfile' = <<>>)]_vars

C14_SecondRequestUnread ==
    /\ pc = "done"
    /\ Cardinality(StatusLines) = 1
    /\ rfile # <<>>
    /\ rfile[1][1] = "GET"

(***************************************************************************)
(* C15: handling a start line of at least two tokens on a tree that does   *)
(* not change ends with exactly one complete response, of status 200, 301, *)
(* 404 or 405, and it is the response that the method, the path and the    *)
(* tree determine.                                                         *)
(***************************************************************************)
C15_OneDeterminedResponse ==
    (Finished /\ Len(start_line) >= 2)
        => /\ pc = "done"
           /\ Cardinality(StatusLines) = 1
           /\ Status \in {"200 OK", "301 Moved Permanently",
                          "404 Not Found", "405 Method Not Allowed"}
           /\ \E i \in DOMAIN wfile : wfile[i].kind = "blank"
           /\ wfile = handle(fs, start_line).wfile

(***************************************************************************)
(* C16: every connection is handled against the root that was computed     *)
(* when the process started, and handling a request does not change it.    *)
(***************************************************************************)
C16_RootFixedAtStartup ==
    /\ [](pc # "listen" => serve_path = SERVE_PATH)
    /\ [][pc \notin {"listen", "done", "error"}
             => serve_path' = serve_path]_vars

\* the trees that differ from f outside the document root www only
OutsideVariants(f) ==
    { [f EXCEPT ![Wwwx \o <<"index.html">>] = e] :
         e \in Options(Wwwx \o <<"index.html">>) }

(***************************************************************************)
(* C17: with www the document root, the response to a request is the same  *)
(* on every tree that differs outside www only, and a GET that leads       *)
(* outside the root gets the very response of a GET for a path within the  *)
(* root where nothing is stored.                                           *)
(***************************************************************************)
C17_OutsideNotObservable ==
    (Finished /\ Len(start_line) >= 2 /\ serve_path = Www)
        => /\ \A g \in OutsideVariants(fs) :
                 handle(g, start_line).wfile = wfile
           /\ (IsGetRequest /\ ~IsWithin(serve_path, Target))
                 => wfile = handle(fs, <<"GET", <<"/", "wwwx">>,
                                         HTTP_1_1>>).wfile

\* the status of the response to a GET for the path p on the tree as it is
StatusOfGet(p) ==
    LET r == handle(fs, <<"GET", p, HTTP_1_1>>)
    IN  IF r.wfile = <<>> THEN "" ELSE r.wfile[1].text

(***************************************************************************)
(* C18: a path that ends with '/' is never answered with 301, the Location *)
(* of a 301 is resolved by secure_path to the resolved path of the request *)
(* itself, and a GET for that Location on the same tree is answered with   *)
(* 200 or 404.                                                             *)
(***************************************************************************)
C18_RedirectsNeverChain ==
    (pc = "done" /\ IsGetRequest)
        => /\ EndsWithSlash(path) => Status # "301 Moved Permanently"
           /\ Status = "301 Moved Permanently"
                 => \A i \in HeaderLines("Location") :
                       /\ secure_path(fs, serve_path, wfile[i].path) = secure
                       /\ StatusOfGet(wfile[i].path)
                             \in {"200 OK", "404 Not Found"}

(***************************************************************************)
(* C19: whatever happens to the tree while a request is handled, a handler *)
(* that has failed has written nothing, and a 200 status line is followed  *)
(* by a Content-Length that is the length of the body written with it.     *)
(***************************************************************************)
C19_NoPartialResponse ==
    /\ pc = "error" => wfile = <<>>
    /\ Status = "200 OK"
          => /\ Len(wfile) = 6
             /\ wfile[6].kind = "body"
             /\ \E i \in HeaderLines("Content-Length") :
                   DecimalValue(wfile[i].digits) = Len(wfile[6].bytes)

C19_FileVanishedBeforeOpen ==
    /\ pc = "error"
    /\ Len(accesses) = 5
    /\ accesses[4].op = "is_file"
    /\ accesses[5].op = "open"
    /\ Lstat(fs, file_path).kind = "none"
    /\ wfile = <<>>

(***************************************************************************)
(* C20: whatever happens to the tree while a request is handled, a 200     *)
(* response to a path that does not end with '/' carries the regular file  *)
(* at the resolved path, never the index.html of a directory.              *)
(***************************************************************************)
C20_IndexOnlyWithSlash ==
    (pc = "done" /\ Status = "200 OK" /\ ~EndsWithSlash(path))
        => /\ file_path = secure.path
           /\ \A i \in DOMAIN accesses : accesses[i].op # "exists"

====
